---- MODULE Spec2Model ----
(***************************************************************************)
(* EliteMindset MCP server (kitchen_sink_server_node/src/server.ts).       *)
(*                                                                         *)
(* The source file holds two variants of the server: the simple variant    *)
(* (lines 1-333, tool next_best_step over inferState) and the richer       *)
(* variant (lines 335-780, tool next_best_step with a timebox, and         *)
(* kitchen-sink-refresh).  Both keep the same session map and the same     *)
(* SSE / POST handlers; their HTTP routers differ.                         *)
(*                                                                         *)
(* Node runs every handler to its first await without interleaving, so     *)
(* one action is one such run: the synchronous part of a request handler,  *)
(* the continuation after an await, or a transport callback.  The MCP SDK  *)
(* (Server, SSEServerTransport) is outside the repository: its outcomes    *)
(* (handshake resolves or rejects, headers sent or not, close and error    *)
(* events, message handler resolves or throws) are nondeterministic.       *)
(*                                                                         *)
(* Strings are TLA+ strings; the non-ASCII characters of the source's      *)
(* fixed texts are written in ASCII: "-" for the em dash of "DONE - (what  *)
(* you did)" and for the en dash of "20-30s", "'" for the typographic      *)
(* apostrophe of "it's".                                                   *)
(***************************************************************************)
EXTENDS Integers, Sequences, FiniteSets, TLC

VARIABLES
    variant,      \* which of the two server variants is running
    sessions,     \* the session map: sessionId -> SessionRecord
    created,      \* session ids the transport constructor has generated
    handshake,    \* per id: "none", "pending", "connected", "failed"
    connectCalls, \* per id: number of server.connect(transport) calls
    connClosed,   \* per id: the SSE connection has closed (res 'close' emitted)
    closeFired,   \* per id: transport.onclose has run
    serverClosed, \* per id: server.close() has been called
    inflight,     \* per id: POSTs handed to the transport, not yet settled
    lastEvent,    \* the handler run that produced the current state
    res,          \* the ServerResponse of the request handled last
    toolReq,      \* the CallToolRequest params given to the tool handler
    toolRes,      \* what the tool handler returned or threw
    toolThrew     \* ids of the sessions whose tool handler has thrown

vars == <<variant, sessions, created, handshake, connectCalls, connClosed,
          closeFired, serverClosed, inflight, lastEvent, res, toolReq, toolRes,
          toolThrew>>

sessionVars == <<sessions, created, handshake, connectCalls, connClosed,
                 closeFired, serverClosed, inflight>>

toolVars == <<toolReq, toolRes, toolThrew>>

----------------------------------------------------------------------------
(* Bounds *)

MaxSessions == 2      \* SSE connections opened in one run
MaxInflight == 1      \* POSTs of one session awaiting the transport

----------------------------------------------------------------------------
(* Constants of the program *)

ssePath == "/mcp"
postPath == "/mcp/messages"

Variants == {"simple", "richer"}

\* url.searchParams.get returns null when the parameter is absent
Null == "<null>"

\* the ids SSEServerTransport generates (randomUUID), one per construction
IdSeq == <<"s1", "s2", "s3", "s4">>
Ids == {IdSeq[n] : n \in 1..MaxSessions}

\* an id no transport ever generated
StrangerId == "zz"

SidParams == Ids \cup {StrangerId, "", Null}

Methods == {"GET", "POST", "OPTIONS"}
Paths == {"/", "/healthz", ssePath, postPath, "/other"}

NoRes == [status |-> 0, body |-> "", headersSent |-> FALSE]

Respond(status, body) == [status |-> status, body |-> body, headersSent |-> TRUE]

\* a handler run: which handler, on which request and session id, whether it
\* read the session map, whether it handed the request to the transport, and
\* res.headersSent as its catch block found it
Event(type, method, path, sid, lookedUp, delegated, headersSent) ==
    [type |-> type, method |-> method, path |-> path, sid |-> sid,
     lookedUp |-> lookedUp, delegated |-> delegated,
     headersSent |-> headersSent]

NoTool == [kind |-> "none"]

----------------------------------------------------------------------------
(* Strings *)

\* String.prototype.includes
includes(t, n) ==
    \E i \in 1..(Len(t) - Len(n) + 1) : SubSeq(t, i, i + Len(n) - 1) = n

----------------------------------------------------------------------------
(* HTTP router: the fixed chain of checks of the request handler *)

\* RouteSimple with the health route registered under a mistyped path
RouteSimple_healthTypo(hasUrl, method, path) ==
    IF ~hasUrl THEN "missingUrl"
    ELSE IF method = "OPTIONS" /\ (path = ssePath \/ path = postPath) THEN "preflight"
    ELSE IF method = "GET" /\ path = "/health" THEN "health"
    ELSE IF method = "GET" /\ path = "/" THEN "root"
    ELSE IF method = "GET" /\ path = ssePath THEN "sse"
    ELSE IF method = "POST" /\ path = postPath THEN "post"
    ELSE "notFound"

\* simple variant, createServer callback
RouteSimple(hasUrl, method, path) ==
    IF ~hasUrl THEN "missingUrl"
    ELSE IF method = "OPTIONS" /\ (path = ssePath \/ path = postPath) THEN "preflight"
    ELSE IF method = "GET" /\ path = "/healthz" THEN "health"
    ELSE IF method = "GET" /\ path = "/" THEN "root"
    ELSE IF method = "GET" /\ path = ssePath THEN "sse"
    ELSE IF method = "POST" /\ path = postPath THEN "post"
    ELSE "notFound"

\* RouteRicher answering the preflight on the SSE path only
RouteRicher_preflightSseOnly(hasUrl, method, path) ==
    IF ~hasUrl THEN "missingUrl"
    ELSE IF method = "OPTIONS" /\ path = ssePath THEN "preflight"
    ELSE IF method = "GET" /\ path = ssePath THEN "sse"
    ELSE IF method = "POST" /\ path = postPath THEN "post"
    ELSE "notFound"

\* richer variant, createServer callback: no health and no root route
RouteRicher(hasUrl, method, path) ==
    IF ~hasUrl THEN "missingUrl"
    ELSE IF method = "OPTIONS" /\ (path = ssePath \/ path = postPath) THEN "preflight"
    ELSE IF method = "GET" /\ path = ssePath THEN "sse"
    ELSE IF method = "POST" /\ path = postPath THEN "post"
    ELSE "notFound"

Route(v, hasUrl, method, path) ==
    IF v = "simple" THEN RouteSimple(hasUrl, method, path)
    ELSE RouteRicher(hasUrl, method, path)

\* JSON.stringify of the service descriptor of the simple variant
RootInfo ==
    "{\"name\":\"EliteMindset MCP Server\",\"version\":\"1.0.0\"," \o
    "\"tool\":\"next_best_step\",\"endpoints\":{\"sse\":\"/mcp\"," \o
    "\"post\":\"/mcp/messages\",\"health\":\"/healthz\"}}"

\* if (!req.url) { res.writeHead(400).end("Missing URL") }
MissingUrl ==
    /\ Route(variant, FALSE, "GET", "") = "missingUrl"
    /\ res' = Respond(400, "Missing URL")
    /\ lastEvent' = Event("missingUrl", "GET", "", Null, FALSE, FALSE, FALSE)
    /\ UNCHANGED <<variant, sessionVars, toolVars>>

\* CORS preflight: 204, res.end() with no body
Preflight ==
    \E method \in Methods, path \in Paths :
        /\ Route(variant, TRUE, method, path) = "preflight"
        /\ res' = Respond(204, "")
        /\ lastEvent' = Event("preflight", method, path, Null, FALSE, FALSE, FALSE)
        /\ UNCHANGED <<variant, sessionVars, toolVars>>

\* health check
Health ==
    \E method \in Methods, path \in Paths :
        /\ Route(variant, TRUE, method, path) = "health"
        /\ res' = Respond(200, "OK")
        /\ lastEvent' = Event("health", method, path, Null, FALSE, FALSE, FALSE)
        /\ UNCHANGED <<variant, sessionVars, toolVars>>

\* root info
Root ==
    \E method \in Methods, path \in Paths :
        /\ Route(variant, TRUE, method, path) = "root"
        /\ res' = Respond(200, RootInfo)
        /\ lastEvent' = Event("root", method, path, Null, FALSE, FALSE, FALSE)
        /\ UNCHANGED <<variant, sessionVars, toolVars>>

\* res.writeHead(404).end("Not Found")
NotFound ==
    \E method \in Methods, path \in Paths :
        /\ Route(variant, TRUE, method, path) = "notFound"
        /\ res' = Respond(404, "Not Found")
        /\ lastEvent' = Event("notFound", method, path, Null, FALSE, FALSE, FALSE)
        /\ UNCHANGED <<variant, sessionVars, toolVars>>

----------------------------------------------------------------------------
(* Session map *)

\* Map.prototype.set
MapSet(m, k, v) == [x \in DOMAIN m \cup {k} |-> IF x = k THEN v ELSE m[x]]

\* MapDelete emptying the map (clear() in place of delete(k))
MapDelete_clears(m, k) == [x \in {} |-> m[x]]

\* a delete that empties the map when its key is already gone
MapDelete_absentClears(m, k) ==
    IF k \in DOMAIN m THEN [x \in DOMAIN m \ {k} |-> m[x]]
    ELSE [x \in {} |-> m[x]]

\* Map.prototype.delete
MapDelete(m, k) == [x \in DOMAIN m \ {k} |-> m[x]]

\* Map.prototype.get(k) !== undefined
MapHas(m, k) == k \in DOMAIN m

\* type SessionRecord = { server, transport }: the handles of session id
SessionRecord(id) == [server |-> id, transport |-> id]

\* MissingSessionId with the check left out
MissingSessionId_never(sid) == FALSE

\* if (!sessionId): null and the empty string are both falsy
MissingSessionId(sid) == sid = Null \/ sid = ""

\* what the SDK's transport has put on a response it started itself
StreamStarted == [status |-> 200, body |-> "", headersSent |-> TRUE]

\* a response the transport's message handler wrote before it threw
TransportWrote(status) == [status |-> status, body |-> "", headersSent |-> TRUE]

Init ==
    /\ variant \in Variants
    /\ sessions = [x \in {} |-> SessionRecord(x)]
    /\ created = {}
    /\ handshake = [s \in Ids |-> "none"]
    /\ connectCalls = [s \in Ids |-> 0]
    /\ connClosed = [s \in Ids |-> FALSE]
    /\ closeFired = [s \in Ids |-> FALSE]
    /\ serverClosed = [s \in Ids |-> FALSE]
    /\ inflight = [s \in Ids |-> 0]
    /\ lastEvent = Event("start", "", "", Null, FALSE, FALSE, FALSE)
    /\ res = NoRes
    /\ toolReq = NoTool
    /\ toolRes = NoTool
    /\ toolThrew = {}

\* handleSseRequest that starts the handshake without having stored the
\* record (sessions.set moved behind the await)
handleSseRequest_setAfterConnect ==
    \E id \in Ids \ created :
        /\ Route(variant, TRUE, "GET", ssePath) = "sse"
        /\ created' = created \cup {id}
        /\ handshake' = [handshake EXCEPT ![id] = "pending"]
        /\ connectCalls' = [connectCalls EXCEPT ![id] = @ + 1]
        /\ res' = NoRes
        /\ lastEvent' = Event("sse", "GET", ssePath, id, FALSE, FALSE, FALSE)
        /\ UNCHANGED <<variant, sessions, connClosed, closeFired, serverClosed,
                       inflight, toolVars>>

\* handleSseRequest up to `await server.connect(transport)`: the server and
\* the transport are constructed, the record is stored, onclose and onerror
\* are assigned and the handshake is started
handleSseRequest ==
    \E id \in Ids \ created :
        /\ Route(variant, TRUE, "GET", ssePath) = "sse"
        /\ created' = created \cup {id}
        /\ sessions' = MapSet(sessions, id, SessionRecord(id))
        /\ handshake' = [handshake EXCEPT ![id] = "pending"]
        /\ connectCalls' = [connectCalls EXCEPT ![id] = @ + 1]
        /\ res' = NoRes
        /\ lastEvent' = Event("sse", "GET", ssePath, id, FALSE, FALSE, FALSE)
        /\ UNCHANGED <<variant, connClosed, closeFired, serverClosed, inflight,
                       toolVars>>

\* HandshakeResolved storing the record again once the handshake is through
HandshakeResolved_reinserts(s) ==
    /\ handshake[s] = "pending"
    /\ handshake' = [handshake EXCEPT ![s] = "connected"]
    /\ sessions' = MapSet(sessions, s, SessionRecord(s))
    /\ res' = StreamStarted
    /\ lastEvent' = Event("connected", "GET", ssePath, s, FALSE, FALSE, FALSE)
    /\ UNCHANGED <<variant, created, connectCalls, connClosed, closeFired,
                   serverClosed, inflight, toolVars>>

\* `await server.connect(transport)` resolves: the transport has started
\* the event stream on the SSE response
HandshakeResolved(s) ==
    /\ handshake[s] = "pending"
    /\ handshake' = [handshake EXCEPT ![s] = "connected"]
    /\ res' = StreamStarted
    /\ lastEvent' = Event("connected", "GET", ssePath, s, FALSE, FALSE, FALSE)
    /\ UNCHANGED <<variant, sessions, created, connectCalls, connClosed,
                   closeFired, serverClosed, inflight, toolVars>>

\* HandshakeRejected without the sessions.delete of the catch block
HandshakeRejected_keepsEntry(s, headersSent) ==
    /\ handshake[s] = "pending"
    /\ handshake' = [handshake EXCEPT ![s] = "failed"]
    /\ res' = IF ~headersSent
              THEN Respond(500, "Failed to establish SSE connection")
              ELSE StreamStarted
    /\ lastEvent' = Event("connectFailed", "GET", ssePath, s, FALSE, FALSE, headersSent)
    /\ UNCHANGED <<variant, sessions, created, connectCalls, connClosed,
                   closeFired, serverClosed, inflight, toolVars>>

\* `await server.connect(transport)` rejects: the catch block of
\* handleSseRequest; headersSent is res.headersSent at that moment
HandshakeRejected(s, headersSent) ==
    /\ handshake[s] = "pending"
    /\ handshake' = [handshake EXCEPT ![s] = "failed"]
    /\ sessions' = MapDelete(sessions, s)
    /\ res' = IF ~headersSent
              THEN Respond(500, "Failed to establish SSE connection")
              ELSE StreamStarted
    /\ lastEvent' = Event("connectFailed", "GET", ssePath, s, FALSE, FALSE, headersSent)
    /\ UNCHANGED <<variant, created, connectCalls, connClosed, closeFired,
                   serverClosed, inflight, toolVars>>

\* the SSE connection of session s closes (client disconnect, network
\* failure): the response emits 'close', which the transport answers by
\* calling onclose in a later turn of the event loop
ConnectionClosed(s) ==
    /\ handshake[s] # "none"
    /\ ~connClosed[s]
    /\ connClosed' = [connClosed EXCEPT ![s] = TRUE]
    /\ res' = NoRes
    /\ lastEvent' = Event("disconnect", "", "", s, FALSE, FALSE, FALSE)
    /\ UNCHANGED <<variant, sessions, created, handshake, connectCalls,
                   closeFired, serverClosed, inflight, toolVars>>

\* onclose without its sessions.delete
onclose_keepsEntry(s) ==
    /\ handshake[s] # "none"
    /\ connClosed' = [connClosed EXCEPT ![s] = TRUE]
    /\ closeFired' = [closeFired EXCEPT ![s] = TRUE]
    /\ serverClosed' = [serverClosed EXCEPT ![s] = TRUE]
    /\ res' = NoRes
    /\ lastEvent' = Event("close", "", "", s, FALSE, FALSE, FALSE)
    /\ UNCHANGED <<variant, sessions, created, handshake, connectCalls,
                   inflight, toolVars>>

\* onclose that ignores a close arriving before the handshake has resolved
onclose_activeOnly(s) ==
    /\ handshake[s] = "connected"
    /\ connClosed' = [connClosed EXCEPT ![s] = TRUE]
    /\ closeFired' = [closeFired EXCEPT ![s] = TRUE]
    /\ sessions' = MapDelete(sessions, s)
    /\ serverClosed' = [serverClosed EXCEPT ![s] = TRUE]
    /\ res' = NoRes
    /\ lastEvent' = Event("close", "", "", s, FALSE, FALSE, FALSE)
    /\ UNCHANGED <<variant, created, handshake, connectCalls,
                   inflight, toolVars>>

\* transport.onclose: sessions.delete(sessionId); await server.close()
onclose(s) ==
    /\ handshake[s] # "none"
    /\ connClosed' = [connClosed EXCEPT ![s] = TRUE]
    /\ closeFired' = [closeFired EXCEPT ![s] = TRUE]
    /\ sessions' = MapDelete(sessions, s)
    /\ serverClosed' = [serverClosed EXCEPT ![s] = TRUE]
    /\ res' = NoRes
    /\ lastEvent' = Event("close", "", "", s, FALSE, FALSE, FALSE)
    /\ UNCHANGED <<variant, created, handshake, connectCalls,
                   inflight, toolVars>>

\* onerror treating the error as the end of the session
onerror_dropsSession(s) ==
    /\ handshake[s] # "none"
    /\ sessions' = MapDelete(sessions, s)
    /\ res' = NoRes
    /\ lastEvent' = Event("error", "", "", s, FALSE, FALSE, FALSE)
    /\ UNCHANGED <<variant, created, handshake, connectCalls, connClosed,
                   closeFired, serverClosed, inflight, toolVars>>

\* transport.onerror: console.error only
onerror(s) ==
    /\ handshake[s] # "none"
    /\ res' = NoRes
    /\ lastEvent' = Event("error", "", "", s, FALSE, FALSE, FALSE)
    /\ UNCHANGED <<variant, sessionVars, toolVars>>

\* handlePostMessage handing the request to a record it looked up before a
\* yield: the map may have lost the session in between
handlePostMessage_staleLookup(sid) ==
    /\ Route(variant, TRUE, "POST", postPath) = "post"
    /\ IF MissingSessionId(sid)
       THEN /\ res' = Respond(400, "Missing sessionId query parameter")
            /\ lastEvent' = Event("post", "POST", postPath, sid, FALSE, FALSE, FALSE)
            /\ UNCHANGED inflight
       ELSE IF sid \notin created
       THEN /\ res' = Respond(404, "Unknown session")
            /\ lastEvent' = Event("post", "POST", postPath, sid, TRUE, FALSE, FALSE)
            /\ UNCHANGED inflight
       ELSE /\ inflight[sid] < MaxInflight
            /\ inflight' = [inflight EXCEPT ![sid] = @ + 1]
            /\ res' = NoRes
            /\ lastEvent' = Event("post", "POST", postPath, sid, TRUE, TRUE, FALSE)
    /\ UNCHANGED <<variant, sessions, created, handshake, connectCalls,
                   connClosed, closeFired, serverClosed, toolVars>>

\* handlePostMessage up to `await session.transport.handlePostMessage`
handlePostMessage(sid) ==
    /\ Route(variant, TRUE, "POST", postPath) = "post"
    /\ IF MissingSessionId(sid)
       THEN /\ res' = Respond(400, "Missing sessionId query parameter")
            /\ lastEvent' = Event("post", "POST", postPath, sid, FALSE, FALSE, FALSE)
            /\ UNCHANGED inflight
       ELSE IF ~MapHas(sessions, sid)
       THEN /\ res' = Respond(404, "Unknown session")
            /\ lastEvent' = Event("post", "POST", postPath, sid, TRUE, FALSE, FALSE)
            /\ UNCHANGED inflight
       ELSE /\ inflight[sessions[sid].transport] < MaxInflight
            /\ inflight' = [inflight EXCEPT ![sessions[sid].transport] = @ + 1]
            /\ res' = NoRes
            /\ lastEvent' = Event("post", "POST", postPath, sid, TRUE, TRUE, FALSE)
    /\ UNCHANGED <<variant, sessions, created, handshake, connectCalls,
                   connClosed, closeFired, serverClosed, toolVars>>

\* `await session.transport.handlePostMessage(req, res)` resolves: the
\* transport has answered the POST itself
PostResolved(s) ==
    /\ inflight[s] > 0
    /\ inflight' = [inflight EXCEPT ![s] = @ - 1]
    /\ res' = TransportWrote(202)
    /\ lastEvent' = Event("postResolved", "POST", postPath, s, FALSE, FALSE, FALSE)
    /\ UNCHANGED <<variant, sessions, created, handshake, connectCalls,
                   connClosed, closeFired, serverClosed, toolVars>>

\* statuses the transport may have written itself before throwing; the
\* transport is SDK code, its choice is not made in this repository
transportErrorStatuses == {400, 500}

\* the catch block writing its 500 without looking at res.headersSent
PostRejected_unguarded(s, headersSent) ==
    /\ inflight[s] > 0
    /\ inflight' = [inflight EXCEPT ![s] = @ - 1]
    /\ res' = Respond(500, "Failed to process message")
    /\ lastEvent' = Event("postRejected", "POST", postPath, s, FALSE, FALSE, headersSent)
    /\ UNCHANGED <<variant, sessions, created, handshake, connectCalls,
                   connClosed, closeFired, serverClosed, toolVars>>

\* a catch block that gives up the session whose transport threw
PostRejected_discardsSession(s, headersSent) ==
    /\ inflight[s] > 0
    /\ inflight' = [inflight EXCEPT ![s] = @ - 1]
    /\ sessions' = MapDelete(sessions, s)
    /\ IF ~headersSent
       THEN res' = Respond(500, "Failed to process message")
       ELSE \E status \in transportErrorStatuses : res' = TransportWrote(status)
    /\ lastEvent' = Event("postRejected", "POST", postPath, s, FALSE, FALSE, headersSent)
    /\ UNCHANGED <<variant, created, handshake, connectCalls,
                   connClosed, closeFired, serverClosed, toolVars>>

\* `await session.transport.handlePostMessage(req, res)` throws: the catch
\* block of handlePostMessage; headersSent is res.headersSent at that moment
PostRejected(s, headersSent) ==
    /\ inflight[s] > 0
    /\ inflight' = [inflight EXCEPT ![s] = @ - 1]
    /\ IF ~headersSent
       THEN res' = Respond(500, "Failed to process message")
       ELSE \E status \in transportErrorStatuses : res' = TransportWrote(status)
    /\ lastEvent' = Event("postRejected", "POST", postPath, s, FALSE, FALSE, headersSent)
    /\ UNCHANGED <<variant, sessions, created, handshake, connectCalls,
                   connClosed, closeFired, serverClosed, toolVars>>

Next ==
    \/ MissingUrl
    \/ Preflight
    \/ Health
    \/ Root
    \/ NotFound
    \/ handleSseRequest
    \/ \E s \in Ids : HandshakeResolved(s)
    \/ \E s \in Ids, headersSent \in BOOLEAN : HandshakeRejected(s, headersSent)
    \/ \E s \in Ids : onclose(s)
    \/ \E s \in Ids : onerror(s)
    \/ \E sid \in SidParams : handlePostMessage(sid)
    \/ \E s \in Ids : PostResolved(s)
    \/ \E s \in Ids, headersSent \in BOOLEAN : PostRejected(s, headersSent)

Spec == Init /\ [][Next]_vars

\* the life of sessions when the closing of a connection and the delivery of
\* its close callback are told apart
NextLive ==
    \/ handleSseRequest
    \/ \E s \in Ids : HandshakeResolved(s)
    \/ \E s \in Ids : ConnectionClosed(s)
    \/ \E s \in Ids : onclose(s)
    \/ \E s \in Ids : handlePostMessage(s)
    \/ \E s \in Ids : PostResolved(s)

\* once a connection has closed, its close callback is a task the event loop
\* will run: it stays enabled until it has run
SpecLive ==
    /\ Init
    /\ [][NextLive]_vars
    /\ \A s \in Ids : WF_vars(connClosed[s] /\ onclose(s))

\* the lifecycle state of a session (spec 4.5), read off the program state
SessionState(s) ==
    IF handshake[s] = "none" THEN "None"
    ELSE IF closeFired[s] \/ handshake[s] = "failed" THEN "Closed"
    ELSE IF handshake[s] = "connected" THEN "Active"
    ELSE "Connecting"

----------------------------------------------------------------------------
(* Strings, continued *)

\* the i-th character of s
At(s, i) == SubSeq(s, i, i)

UpperLetters == "ABCDEFGHIJKLMNOPQRSTUVWXYZ"
LowerLetters == "abcdefghijklmnopqrstuvwxyz"
Digits == "0123456789"

IsDigit(c) == c \in {At(Digits, i) : i \in 1..Len(Digits)}

\* \s of a JavaScript regular expression, and what trim() strips
IsSpace(c) == c \in {" ", "\t", "\n", "\r", "\f"}

LowerChar(c) ==
    IF \E i \in 1..Len(UpperLetters) : At(UpperLetters, i) = c
    THEN At(LowerLetters, CHOOSE i \in 1..Len(UpperLetters) : At(UpperLetters, i) = c)
    ELSE c

\* \w of a JavaScript regular expression
IsWordChar(c) ==
    \/ \E i \in 1..Len(LowerLetters) : At(LowerLetters, i) = c
    \/ \E i \in 1..Len(UpperLetters) : At(UpperLetters, i) = c
    \/ IsDigit(c)
    \/ c = "_"

\* String.prototype.toLowerCase
RECURSIVE toLowerCase(_)
toLowerCase(s) ==
    IF Len(s) = 0 THEN ""
    ELSE LowerChar(At(s, 1)) \o toLowerCase(SubSeq(s, 2, Len(s)))

\* String.prototype.trim
trim(s) ==
    LET keep == {i \in 1..Len(s) : ~IsSpace(At(s, i))}
    IN  IF keep = {} THEN ""
        ELSE SubSeq(s, CHOOSE i \in keep : \A j \in keep : i <= j,
                       CHOOSE i \in keep : \A j \in keep : j <= i)

\* Array.prototype.join
RECURSIVE join(_, _)
join(lines, sep) ==
    IF Len(lines) = 0 THEN ""
    ELSE IF Len(lines) = 1 THEN lines[1]
    ELSE lines[1] \o sep \o join(Tail(lines), sep)

\* the number of places of t at which n occurs
Occurrences(t, n) ==
    Cardinality({i \in 1..(Len(t) - Len(n) + 1) : SubSeq(t, i, i + Len(n) - 1) = n})

----------------------------------------------------------------------------
(* Simple variant: intent classifier and tool handler *)

stateData ==
    [S1 |-> [message |-> "You're not stuck. You're overloaded. Pause. Pick the ONE thing that would give you the most relief or progress. Write it down. Then reply: DONE - (what you did).",
             ask |-> "Reply: DONE - (what you did)"],
     S2 |-> [message |-> "Good. You moved. Now do ONE more small thing. Anything. A file rename. A sentence. A single email. Reply: DONE - (what you did).",
             ask |-> "Reply: DONE - (what you did)"],
     S3 |-> [message |-> "You're building momentum. Keep it micro. What's ONE more small thing you can do in the next 60 seconds? Do it. Reply when done.",
             ask |-> "Reply when you've done it"],
     S4 |-> [message |-> "You need clarity, not motivation. List your top 3 concerns. I'll help you identify the ONE thing that matters most right now.",
             ask |-> "List your top 3 concerns"]]

\* /\bdone\b/.test(t)
doneWord(t) ==
    \E i \in 1..(Len(t) - 3) :
        /\ SubSeq(t, i, i + 3) = "done"
        /\ (i = 1 \/ ~IsWordChar(At(t, i - 1)))
        /\ (i + 3 = Len(t) \/ ~IsWordChar(At(t, i + 4)))

donePhrases ==
    {"i did", "i wrote", "i opened", "i sent", "i renamed", "finished", "completed"}

clarityPhrases ==
    {"what should i focus", "help me decide", "which should i", "i need clarity",
     "prioritize", "priority", "what's the plan"}

momentumPhrases ==
    {"what next", "next step", "keep going", "continue", "now what"}

stuckPhrases ==
    {"overwhelmed", "stuck", "procrast", "spinning", "confus", "scattered",
     "paraly", "can't start", "don't know where to start"}

doneSignal(t) == doneWord(t) \/ \E n \in donePhrases : includes(t, n)

clarityRequest(t) == \E n \in clarityPhrases : includes(t, n)

momentumRequest(t) == \E n \in momentumPhrases : includes(t, n)

stuckSignal(t) == \E n \in stuckPhrases : includes(t, n)

\* inferState with the momentum test ahead of the clarity test
inferState_momentumFirst(userText) ==
    LET t == trim(toLowerCase(userText))
    IN  IF doneSignal(t) THEN "S2"
        ELSE IF momentumRequest(t) THEN "S3"
        ELSE IF clarityRequest(t) THEN "S4"
        ELSE IF stuckSignal(t) THEN "S1"
        ELSE "S1"

\* inferState whose final fallback is Momentum instead of Stuck
inferState_defaultMomentum(userText) ==
    LET t == trim(toLowerCase(userText))
    IN  IF doneSignal(t) THEN "S2"
        ELSE IF clarityRequest(t) THEN "S4"
        ELSE IF momentumRequest(t) THEN "S3"
        ELSE IF stuckSignal(t) THEN "S1"
        ELSE "S3"

inferState(userText) ==
    LET t == trim(toLowerCase(userText))
    IN  IF doneSignal(t) THEN "S2"
        ELSE IF clarityRequest(t) THEN "S4"
        ELSE IF momentumRequest(t) THEN "S3"
        ELSE IF stuckSignal(t) THEN "S1"
        ELSE "S1"

\* an optional argument: <<>> when absent, <<value>> when given
Absent == << >>
Given(v) == <<v>>
OrElse(opt, default) == IF opt = Absent THEN default ELSE opt[1]

ToolError(message) == [kind |-> "error", error |-> message]

\* CallToolRequestSchema handler of the simple variant
callToolSimple(req) ==
    IF req.name = "next_best_step"
    THEN IF req.user_input = Absent \/ Len(req.user_input[1]) < 1
         THEN ToolError("validation")
         ELSE LET state == inferState(req.user_input[1])
                  data == stateData[state]
              IN  [kind |-> "result",
                   text |-> data.message \o "\n\n" \o data.ask,
                   message |-> data.message,
                   action |-> data.ask,
                   state |-> state]
    ELSE ToolError("Unknown tool: " \o req.name)

----------------------------------------------------------------------------
(* Richer variant: timebox detection and tool handler *)

\* the alternatives of (minutes?|mins?|hours?|hrs?), in the order tried,
\* each without its optional s
timeboxUnits == <<"minute", "min", "hour", "hr">>

\* length of what (minutes?|mins?|hours?|hrs?) matches at position j of s
\* under the i flag, 0 when no alternative matches there
unitLength(s, j) ==
    LET fits(k) == /\ j + Len(timeboxUnits[k]) - 1 <= Len(s)
                   /\ toLowerCase(SubSeq(s, j, j + Len(timeboxUnits[k]) - 1))
                          = timeboxUnits[k]
        ks == {k \in 1..Len(timeboxUnits) : fits(k)}
    IN  IF ks = {} THEN 0
        ELSE LET k == CHOOSE x \in ks : \A y \in ks : x <= y
                 e == j + Len(timeboxUnits[k])
             IN  IF e <= Len(s) /\ toLowerCase(At(s, e)) = "s"
                 THEN Len(timeboxUnits[k]) + 1
                 ELSE Len(timeboxUnits[k])

\* the ends <<d, w, e>> of the matches of (\d+)\s*(unit) that start at i:
\* digits i..d, white space d+1..w, unit w+1..e
matchesAt(s, i) ==
    LET digitEnds == {d \in i..Len(s) : \A k \in i..d : IsDigit(At(s, k))}
        spaceEnds(d) == {w \in d..Len(s) : \A k \in (d + 1)..w : IsSpace(At(s, k))}
    IN  UNION {{<<d, w, w + unitLength(s, w + 1)>> :
                   w \in {x \in spaceEnds(d) : unitLength(s, x + 1) > 0}} :
               d \in digitEnds}

\* the match the greedy quantifiers settle on among those starting at i
greedyMatch(s, i) ==
    CHOOSE m \in matchesAt(s, i) :
        \A o \in matchesAt(s, i) :
            o[1] < m[1] \/ (o[1] = m[1] /\ o[2] <= m[2])

\* a match that hands out the matched text in lower case
timeboxMatch_lowerCased(situation) ==
    LET starts == {i \in 1..Len(situation) : matchesAt(situation, i) # {}}
    IN  IF starts = {} THEN Absent
        ELSE LET i == CHOOSE x \in starts : \A y \in starts : x <= y
             IN  Given(toLowerCase(
                     SubSeq(situation, i, greedyMatch(situation, i)[3])))

\* args.situation.match(/(\d+)\s*(minutes?|mins?|hours?|hrs?)/i): Absent for
\* null, else the matched text m[0] of the leftmost match
timeboxMatch(situation) ==
    LET starts == {i \in 1..Len(situation) : matchesAt(situation, i) # {}}
    IN  IF starts = {} THEN Absent
        ELSE LET i == CHOOSE x \in starts : \A y \in starts : x <= y
             IN  Given(SubSeq(situation, i, greedyMatch(situation, i)[3]))

defaultConstraints ==
    "One step only. Make it concrete, time-boxed, and low-friction."

defaultTimebox == "30 minutes"

\* the three draft options of the step, as the step spells them
draftOptions ==
    {"(a) 5 App Store headline variants", "(b) one outreach DM",
     "(c) a 20-30s UGC script"}

stepText(timebox) ==
    "Set a " \o timebox \o " timer and produce ONE shippable draft that moves distribution forward (not polish). Pick exactly one: (a) 5 App Store headline variants, (b) one outreach DM, or (c) a 20-30s UGC script. Write the ugly first draft without editing."

finishLine ==
    "Done = you can paste/share the draft somewhere immediately (even if it's not perfect)."

\* Array.prototype.filter(Boolean) on lines that are strings or null
filterBoolean(lines) == SelectSeq(lines, LAMBDA l : l # Null /\ l # "")

\* composeDetails with the situation quoted under the heading
composeDetails_quotesSituation(situation, constraintsArg, desiredArg) ==
    LET trimmed == trim(OrElse(constraintsArg, ""))
        constraints == IF trimmed # "" THEN trimmed ELSE defaultConstraints
        desired == trim(OrElse(desiredArg, ""))
        timebox == OrElse(timeboxMatch(situation), defaultTimebox)
        detailsLines == filterBoolean(
            <<"Next Best Step (" \o timebox \o "):",
              "Situation: " \o situation,
              stepText(timebox),
              "",
              "Constraints: " \o constraints,
              IF desired # "" THEN "Desired outcome: " \o desired ELSE Null,
              "",
              finishLine>>)
    IN  join(detailsLines, "\n")

\* composeDetails falling back to the situation for the desired outcome
composeDetails_situationAsOutcome(situation, constraintsArg, desiredArg) ==
    LET trimmed == trim(OrElse(constraintsArg, ""))
        constraints == IF trimmed # "" THEN trimmed ELSE defaultConstraints
        given == trim(OrElse(desiredArg, ""))
        desired == IF given # "" THEN given ELSE trim(situation)
        timebox == OrElse(timeboxMatch(situation), defaultTimebox)
        detailsLines == filterBoolean(
            <<"Next Best Step (" \o timebox \o "):",
              stepText(timebox),
              "",
              "Constraints: " \o constraints,
              IF desired # "" THEN "Desired outcome: " \o desired ELSE Null,
              "",
              finishLine>>)
    IN  join(detailsLines, "\n")

\* the text `details` of next_best_step
composeDetails(situation, constraintsArg, desiredArg) ==
    LET trimmed == trim(OrElse(constraintsArg, ""))
        constraints == IF trimmed # "" THEN trimmed ELSE defaultConstraints
        desired == trim(OrElse(desiredArg, ""))
        timebox == OrElse(timeboxMatch(situation), defaultTimebox)
        detailsLines == filterBoolean(
            <<"Next Best Step (" \o timebox \o "):",
              stepText(timebox),
              "",
              "Constraints: " \o constraints,
              IF desired # "" THEN "Desired outcome: " \o desired ELSE Null,
              "",
              finishLine>>)
    IN  join(detailsLines, "\n")

\* CallToolRequestSchema handler of the richer variant
callToolRicher(req) ==
    IF req.name = "next_best_step"
    THEN IF req.situation = Absent \/ Len(req.situation[1]) < 1
         THEN ToolError("validation")
         ELSE LET details == composeDetails(req.situation[1], req.constraints,
                                            req.desired_outcome)
              IN  [kind |-> "result",
                   text |-> details,
                   message |-> "Next Best Step (one action)",
                   details |-> details,
                   fromTool |-> "next_best_step"]
    ELSE IF req.name = "kitchen-sink-refresh"
    THEN IF req.message = Absent
         THEN ToolError("validation")
         ELSE [kind |-> "result",
               text |-> req.message[1],
               message |-> req.message[1],
               details |-> "Response returned from window.openai.callTool.",
               fromTool |-> "kitchen-sink-refresh"]
    ELSE ToolError("Unknown tool: " \o req.name)

----------------------------------------------------------------------------
(* Tool calls on bounded inputs *)

MaxFrags == 3   \* fragments an input text is put together from

\* the texts made of at most n fragments of frags
RECURSIVE Texts(_, _)
Texts(frags, n) ==
    IF n = 0 THEN {""}
    ELSE LET shorter == Texts(frags, n - 1)
         IN  shorter \cup {t \o f : t \in shorter, f \in frags}

userInputFragments ==
    {"Done", "I did", "Priority", "now what", "Stuck", " ", "x"}

situationFragments == {"2", "15", " ", "hours", "MIN", "(a) x "}

constraintsInputs ==
    {Absent, Given("  "), Given(" Low friction "), Given("(a) nap, (b) walk")}

desiredInputs == {Absent, Given(" "), Given("Momentum")}

toolNames == {"next_best_step", "kitchen-sink-refresh", "tool-x"}

\* the CallToolRequest params a client can send; arguments of the other
\* variant's schema are left out
simpleRequests ==
    {[kind |-> "call", name |-> "next_best_step", user_input |-> Given(t)] :
         t \in Texts(userInputFragments, MaxFrags)}
    \cup {[kind |-> "call", name |-> n, user_input |-> Absent] : n \in toolNames}

richerRequests ==
    {[kind |-> "call", name |-> "next_best_step", situation |-> Given(t),
      constraints |-> c, desired_outcome |-> d, message |-> Absent] :
         t \in Texts(situationFragments, MaxFrags),
         c \in constraintsInputs, d \in desiredInputs}
    \cup {[kind |-> "call", name |-> n, situation |-> Absent,
           constraints |-> Absent, desired_outcome |-> Absent, message |-> m] :
              n \in toolNames, m \in {Absent, Given(""), Given("hi")}}

InitTool(v, requests) ==
    /\ variant = v
    /\ sessions = [x \in {} |-> SessionRecord(x)]
    /\ created = {}
    /\ handshake = [s \in Ids |-> "none"]
    /\ connectCalls = [s \in Ids |-> 0]
    /\ connClosed = [s \in Ids |-> FALSE]
    /\ closeFired = [s \in Ids |-> FALSE]
    /\ serverClosed = [s \in Ids |-> FALSE]
    /\ inflight = [s \in Ids |-> 0]
    /\ lastEvent = Event("start", "", "", Null, FALSE, FALSE, FALSE)
    /\ res = NoRes
    /\ toolReq \in requests
    /\ toolRes = NoTool
    /\ toolThrew = {}

InitSimple == InitTool("simple", simpleRequests)

InitRicher == InitTool("richer", richerRequests)

\* the protocol layer hands the decoded request to the variant's
\* CallToolRequestSchema handler
CallTool ==
    /\ toolReq.kind = "call"
    /\ toolRes = NoTool
    /\ toolRes' = IF variant = "simple"
                  THEN callToolSimple(toolReq)
                  ELSE callToolRicher(toolReq)
    /\ UNCHANGED <<variant, sessionVars, lastEvent, res, toolReq, toolThrew>>

NextTool == CallTool

SpecSimple == InitSimple /\ [][NextTool]_vars

SpecRicher == InitRicher /\ [][NextTool]_vars

\* inferState on its own: any string, the empty one included (the tool
\* handler's schema would reject "" before inferState sees it)
inferFragments == {"Done", "now what", "Stuck", "help", " ", "\t", "x"}

inferInputs ==
    {[kind |-> "infer", user_input |-> Given(t)] :
         t \in Texts(inferFragments, MaxFrags)}

InitInfer == InitTool("simple", inferInputs)

CallInferState ==
    /\ toolReq.kind = "infer"
    /\ toolRes = NoTool
    /\ toolRes' = [kind |-> "inferred",
                   state |-> inferState(toolReq.user_input[1])]
    /\ UNCHANGED <<variant, sessionVars, lastEvent, res, toolReq, toolThrew>>

NextInfer == CallInferState

SpecInfer == InitInfer /\ [][NextInfer]_vars

----------------------------------------------------------------------------
(* Tool calls arriving on a session *)

\* the tools each variant's CallToolRequestSchema handler answers
registeredTools(v) ==
    IF v = "simple" THEN {"next_best_step"}
    ELSE {"next_best_step", "kitchen-sink-refresh"}

\* tools/call requests a client sends over a session, with the arguments of
\* every tool filled in
sessionRequests ==
    {[kind |-> "call", name |-> n,
      user_input |-> Given("now what"),
      situation |-> Given("15 min"),
      constraints |-> Absent, desired_outcome |-> Absent,
      message |-> Given("hi")] : n \in toolNames}

\* what the variant's handler returns or throws for each of them
callTool ==
    [v \in Variants, req \in sessionRequests |->
        IF v = "simple" THEN callToolSimple(req) ELSE callToolRicher(req)]

\* a thrown tool error taking the session down with it
ToolCall_errorEndsSession(s, req) ==
    LET result == callTool[variant, req]
    IN  /\ inflight[s] > 0
        /\ toolReq' = req
        /\ toolRes' = result
        /\ toolThrew' = IF result.kind = "error" THEN toolThrew \cup {s}
                        ELSE toolThrew
        /\ sessions' = IF result.kind = "error" THEN MapDelete(sessions, s)
                       ELSE sessions
        /\ res' = NoRes
        /\ lastEvent' = Event("toolCall", "POST", postPath, s, FALSE, FALSE, FALSE)
        /\ UNCHANGED <<variant, created, handshake, connectCalls, connClosed,
                       closeFired, serverClosed, inflight>>

\* the transport of session s hands a tools/call message of a delegated POST
\* to the handler of that session's server; a throw is caught by the
\* protocol layer and answered as an error
ToolCall(s, req) ==
    LET result == callTool[variant, req]
    IN  /\ inflight[s] > 0
        /\ toolReq' = req
        /\ toolRes' = result
        /\ toolThrew' = IF result.kind = "error" THEN toolThrew \cup {s}
                        ELSE toolThrew
        /\ res' = NoRes
        /\ lastEvent' = Event("toolCall", "POST", postPath, s, FALSE, FALSE, FALSE)
        /\ UNCHANGED <<variant, sessionVars>>

\* sessions that stay open while their clients call tools
NextCalls ==
    \/ handleSseRequest
    \/ \E s \in Ids : HandshakeResolved(s)
    \/ \E s \in Ids : handlePostMessage(s)
    \/ \E s \in Ids, req \in sessionRequests : ToolCall(s, req)
    \/ \E s \in Ids : PostResolved(s)

SpecCalls == Init /\ [][NextCalls]_vars

----------------------------------------------------------------------------
(* Tools: properties *)

\* the keyword sets the lower-cased, trimmed text t matches
matchedSets(t) ==
    {k \in {"completion", "clarity", "momentum", "overwhelm"} :
        \/ k = "completion" /\ (doneWord(t) \/ \E n \in donePhrases : includes(t, n))
        \/ k = "clarity" /\ (\E n \in clarityPhrases : includes(t, n))
        \/ k = "momentum" /\ (\E n \in momentumPhrases : includes(t, n))
        \/ k = "overwhelm" /\ (\E n \in stuckPhrases : includes(t, n))}

\* C9: inferState returns exactly one of the four states, by the priority
\* completion > clarity > momentum > overwhelm > default: Moved (S2) when a
\* completion phrase matches, else NeedsClarity (S4) when a clarity phrase
\* matches, else Momentum (S3) when a momentum phrase matches, else Stuck (S1).
C9_InferStatePriority ==
    (variant = "simple" /\ toolRes.kind = "result") =>
        LET m == matchedSets(trim(toLowerCase(toolReq.user_input[1])))
        IN  /\ toolRes.state \in {"S1", "S2", "S3", "S4"}
            /\ "completion" \in m => toolRes.state = "S2"
            /\ ("completion" \notin m /\ "clarity" \in m) => toolRes.state = "S4"
            /\ ({"completion", "clarity"} \cap m = {} /\ "momentum" \in m) =>
                   toolRes.state = "S3"
            /\ {"completion", "clarity", "momentum"} \cap m = {} =>
                   toolRes.state = "S1"

\* an input matching a clarity phrase and a momentum phrase was classified
\* NeedsClarity
C9_Witness ==
    /\ variant = "simple" /\ toolRes.kind = "result"
    /\ {"clarity", "momentum"} \subseteq
           matchedSets(trim(toLowerCase(toolReq.user_input[1])))
    /\ toolRes.state = "S4"

\* the step of the richer next_best_step has produced its text
RicherStepResult ==
    /\ variant = "richer"
    /\ toolRes.kind = "result"
    /\ toolRes.fromTool = "next_best_step"

----------------------------------------------------------------------------
(* Session directory and router: properties *)

\* the step is a run of handlePostMessage on a POST carrying session id s
PostStep(s) == lastEvent'.type = "post" /\ lastEvent'.sid = s

\* C1: every key of the session map is the id of a constructed transport
\* whose close callback has not run; once onclose has run for a session the
\* map holds no entry for it.
C1_NoStaleSession ==
    \A s \in DOMAIN sessions :
        /\ s \in created
        /\ sessions[s].transport = s
        /\ ~closeFired[s]

\* a session has been closed while another one is still in the map
C1_Witness ==
    \E s, t \in Ids : closeFired[s] /\ ~MapHas(sessions, s) /\ MapHas(sessions, t)

\* C2: a POST carrying the id of a session whose close event has fired gets
\* 404 "Unknown session" and is not handed to the transport, and the id never
\* comes back into the map; a POST carrying the id of a session whose
\* handshake succeeded and that has not closed is handed to its transport.
C2_PostLifecycle ==
    [][\A s \in Ids :
        /\ closeFired[s] => ~MapHas(sessions', s)
        /\ (PostStep(s) /\ closeFired[s]) =>
               /\ res' = Respond(404, "Unknown session")
               /\ ~lastEvent'.delegated
               /\ inflight' = inflight
        /\ (PostStep(s) /\ handshake[s] = "connected" /\ ~closeFired[s]) =>
               /\ lastEvent'.delegated
               /\ inflight'[s] = inflight[s] + 1
               /\ res' = NoRes]_vars

\* a POST for a session that connected and then closed got 404 while a POST
\* of a live connected session is with its transport
C2_Witness ==
    \E s, t \in Ids :
        /\ lastEvent.type = "post" /\ lastEvent.sid = s
        /\ handshake[s] = "connected" /\ closeFired[s]
        /\ res.status = 404
        /\ handshake[t] = "connected" /\ ~closeFired[t] /\ inflight[t] > 0

\* C3: a POST whose query string has no sessionId parameter gets 400 without
\* the session map being read, whatever the map holds, and leaves the map
\* and every session and transport as they were.
C3_MissingSessionId ==
    [][PostStep(Null) =>
          /\ res' = Respond(400, "Missing sessionId query parameter")
          /\ ~lastEvent'.lookedUp
          /\ ~lastEvent'.delegated
          /\ UNCHANGED sessionVars]_vars

\* a POST without sessionId was answered 400 while the map holds a session
C3_Witness ==
    /\ lastEvent.type = "post" /\ lastEvent.sid = Null
    /\ res.status = 400
    /\ DOMAIN sessions # {}

\* C4: every SSE connect adds one entry under an id no earlier connect got,
\* and the close event or handshake failure of one session leaves every
\* other session's entry, server and transport untouched.
C4_IndependentSessions ==
    [][/\ lastEvent'.type = "sse" =>
              /\ lastEvent'.sid \notin created
              /\ DOMAIN sessions' = DOMAIN sessions \cup {lastEvent'.sid}
              /\ Cardinality(DOMAIN sessions') = Cardinality(DOMAIN sessions) + 1
       /\ \A s \in Ids :
              (lastEvent'.type \in {"close", "connectFailed"} /\ lastEvent'.sid # s) =>
                  /\ MapHas(sessions', s) = MapHas(sessions, s)
                  /\ MapHas(sessions, s) => sessions'[s] = sessions[s]
                  /\ handshake'[s] = handshake[s]
                  /\ closeFired'[s] = closeFired[s]
                  /\ serverClosed'[s] = serverClosed[s]
                  /\ inflight'[s] = inflight[s]]_vars

\* of two sessions that were connected, one has just closed and the other is
\* still in the map
C4_Witness ==
    \E s, t \in Ids :
        /\ s # t
        /\ lastEvent.type = "close" /\ lastEvent.sid = s
        /\ ~MapHas(sessions, s)
        /\ MapHas(sessions, t) /\ ~serverClosed[t]

\* C5 as stated: after a failed handshake the record is gone from the map,
\* the SSE caller has a 500 response, and connect was called once.
C5_Original ==
    lastEvent.type = "connectFailed" =>
        /\ ~MapHas(sessions, lastEvent.sid)
        /\ res.status = 500
        /\ connectCalls[lastEvent.sid] = 1

\* C5 amended: after a failed handshake the record is gone from the map and
\* connect was called once; the SSE caller gets the 500 response exactly when
\* no response headers had been sent, otherwise the response is left as the
\* transport started it.
C5_HandshakeFailure ==
    /\ \A s \in Ids : connectCalls[s] <= 1
    /\ lastEvent.type = "connectFailed" =>
        /\ ~MapHas(sessions, lastEvent.sid)
        /\ handshake[lastEvent.sid] = "failed"
        /\ connectCalls[lastEvent.sid] = 1
        /\ IF lastEvent.headersSent
           THEN res = StreamStarted
           ELSE res = Respond(500, "Failed to establish SSE connection")

\* a handshake failed after the response headers had gone out
C5_Witness ==
    /\ lastEvent.type = "connectFailed"
    /\ lastEvent.headersSent
    /\ res.status # 500

\* C6 as stated: a session that is Closed, by a close event or by a failed
\* handshake, has no map entry and server.close() has been called on its
\* protocol server.
C6_ClosedReleased ==
    \A s \in Ids :
        SessionState(s) = "Closed" => ~MapHas(sessions, s) /\ serverClosed[s]

\* C7 as stated: in both variants GET /healthz gets 200 "OK" and GET / gets
\* 200 with the JSON service descriptor.
C7_Original ==
    /\ (lastEvent.method = "GET" /\ lastEvent.path = "/healthz") =>
           res = Respond(200, "OK")
    /\ (lastEvent.method = "GET" /\ lastEvent.path = "/") =>
           res.status = 200

\* C7 amended: in the simple variant GET /healthz gets 200 "OK" and GET /
\* gets 200 with the JSON descriptor {name, version, tool, endpoints}, in
\* every state of the session map; the richer variant has neither route and
\* answers both with 404 "Not Found".
C7_HealthAndRoot ==
    /\ (lastEvent.method = "GET" /\ lastEvent.path = "/healthz") =>
           IF variant = "simple"
           THEN res = Respond(200, "OK")
           ELSE res = Respond(404, "Not Found")
    /\ (lastEvent.method = "GET" /\ lastEvent.path = "/") =>
           IF variant = "simple"
           THEN /\ res.status = 200
                /\ \A key \in {"{\"name\":", ",\"version\":", ",\"tool\":",
                               ",\"endpoints\":{"} : includes(res.body, key)
           ELSE res = Respond(404, "Not Found")

\* the simple variant answered the health check while a session is open
C7_Witness ==
    /\ variant = "simple"
    /\ lastEvent.method = "GET" /\ lastEvent.path = "/healthz"
    /\ res.status = 200
    /\ DOMAIN sessions # {}

\* the (method, path) pairs the router of variant v has a route for
FixedRoutes(v) ==
    {<<"OPTIONS", ssePath>>, <<"OPTIONS", postPath>>,
     <<"GET", ssePath>>, <<"POST", postPath>>}
    \cup (IF v = "simple" THEN {<<"GET", "/healthz">>, <<"GET", "/">>} ELSE {})

\* the handler runs that are the router's own answers
RouterEvents == {"preflight", "health", "root", "notFound"}

\* C8: the router is total and deterministic on (method, path): OPTIONS on
\* /mcp or /mcp/messages gets 204 with no body, every pair outside the fixed
\* routes gets 404 "Not Found", and every pair is answered by exactly one
\* route, the first of the chain that matches.
C8_RouterTotal ==
    /\ \A m \in Methods, p \in Paths :
           /\ Route(variant, TRUE, m, p) \in
                  RouterEvents \cup {"sse", "post"}
           /\ Route(variant, TRUE, m, p) = "notFound" <=>
                  <<m, p>> \notin FixedRoutes(variant)
           /\ Route(variant, TRUE, m, p) = "preflight" <=>
                  (m = "OPTIONS" /\ p \in {ssePath, postPath})
    /\ lastEvent.type \in RouterEvents \cup {"sse", "post"} =>
           /\ (lastEvent.method = "OPTIONS" /\ lastEvent.path \in {ssePath, postPath}) =>
                  lastEvent.type = "preflight" /\ res = Respond(204, "")
           /\ <<lastEvent.method, lastEvent.path>> \notin FixedRoutes(variant) <=>
                  lastEvent.type = "notFound"
           /\ lastEvent.type = "notFound" => res = Respond(404, "Not Found")

\* a known path asked with a method it has no route for got 404
C8_Witness ==
    /\ lastEvent.type = "notFound"
    /\ lastEvent.method = "POST" /\ lastEvent.path = ssePath
    /\ res.status = 404
    /\ DOMAIN sessions # {}

----------------------------------------------------------------------------
(* Session directory: handshake race, errors, atomicity *)

\* C11: the record is in the map from the step that starts the handshake,
\* so a POST carrying the id of a session whose handshake is pending and
\* whose transport has not closed is handed to its transport, not answered
\* 404.
C11_PostDuringHandshake ==
    [][\A s \in Ids :
        /\ (lastEvent'.type = "sse" /\ lastEvent'.sid = s) =>
               handshake'[s] = "pending" /\ MapHas(sessions', s)
        /\ (PostStep(s) /\ handshake[s] = "pending" /\ ~closeFired[s]) =>
               /\ MapHas(sessions, s)
               /\ lastEvent'.delegated
               /\ res'.status # 404
               /\ inflight'[s] = inflight[s] + 1]_vars

\* a POST was handed to the transport of a session still connecting
C11_Witness ==
    \E s \in Ids :
        /\ lastEvent.type = "post" /\ lastEvent.sid = s /\ lastEvent.delegated
        /\ handshake[s] = "pending"
        /\ ~closeFired[s]
        /\ inflight[s] > 0

\* C12: a transport error event changes neither the map nor any session's
\* state or handles; a session becomes Closed only in the step of its own
\* close event or handshake failure.
C12_ErrorKeepsSession ==
    [][/\ lastEvent'.type = "error" =>
              /\ UNCHANGED sessionVars
              /\ \A s \in Ids : SessionState(s)' = SessionState(s)
       /\ \A s \in Ids :
              (SessionState(s) # "Closed" /\ SessionState(s)' = "Closed") =>
                  /\ lastEvent'.type \in {"close", "connectFailed"}
                  /\ lastEvent'.sid = s]_vars

\* an error event hit an Active session, which is still in the map
C12_Witness ==
    \E s \in Ids :
        /\ lastEvent.type = "error" /\ lastEvent.sid = s
        /\ SessionState(s) = "Active"
        /\ MapHas(sessions, s)

\* C13: a POST is handed to a transport only in the handler step that found
\* its session in the map, so at the hand-off the session is in the map and
\* its close event has not fired.
C13_AtomicLookupAndHandoff ==
    (lastEvent.type = "post" /\ lastEvent.delegated) =>
        /\ lastEvent.lookedUp
        /\ MapHas(sessions, lastEvent.sid)
        /\ sessions[lastEvent.sid].transport = lastEvent.sid
        /\ ~closeFired[lastEvent.sid]
        /\ inflight[lastEvent.sid] > 0

\* a POST was handed over for a connected session after another session's
\* close event had removed that one from the map
C13_Witness ==
    \E s, t \in Ids :
        /\ lastEvent.type = "post" /\ lastEvent.sid = s /\ lastEvent.delegated
        /\ handshake[s] = "connected" /\ ~closeFired[s]
        /\ closeFired[t] /\ ~MapHas(sessions, t)

\* C14 as stated: after the transport's handler threw, the caller's response
\* has status 500 exactly when no response had been started.
C14_Original ==
    lastEvent.type = "postRejected" =>
        (res.status = 500 <=> ~lastEvent.headersSent)

\* C14: when the transport's handler throws during a POST, the handler
\* answers 500 "Failed to process message" exactly when no response has been
\* started; otherwise it writes nothing and the response stays the one the
\* transport started, whatever its status. In both cases the session stays
\* in the map, is not closed, and its state does not change.
C14_PostFailure ==
    [][\A s \in Ids :
        (lastEvent'.type = "postRejected" /\ lastEvent'.sid = s) =>
            /\ res' = Respond(500, "Failed to process message")
                   <=> ~lastEvent'.headersSent
            /\ lastEvent'.headersSent =>
                   \E status \in transportErrorStatuses :
                       res' = TransportWrote(status)
            /\ sessions' = sessions
            /\ closeFired' = closeFired /\ serverClosed' = serverClosed
            /\ handshake' = handshake /\ connClosed' = connClosed
            /\ SessionState(s)' = SessionState(s)
            /\ inflight'[s] = inflight[s] - 1]_vars

\* the handler threw after the transport had started the response, and the
\* session, connected and not closed, is still in the map
C14_Witness ==
    \E s \in Ids :
        /\ lastEvent.type = "postRejected" /\ lastEvent.sid = s
        /\ lastEvent.headersSent
        /\ res.headersSent /\ res.body = ""
        /\ MapHas(sessions, s)
        /\ handshake[s] = "connected" /\ ~closeFired[s]

----------------------------------------------------------------------------
(* Liveness of removal *)

\* C15: under fair delivery of the close callback, every session whose
\* connection has closed is eventually absent from the map, whether it was
\* Connecting or Active and whatever POSTs are in flight; a session whose
\* handshake succeeded and whose connection has not closed is in the map.
C15_ClosedEventuallyRemoved ==
    /\ \A s \in Ids : connClosed[s] ~> ~MapHas(sessions, s)
    /\ [](\A s \in Ids :
            (handshake[s] = "connected" /\ ~connClosed[s]) =>
                MapHas(sessions, s))

\* the close callback of a closed connection has removed its session, a
\* POST of which is still in flight, while a connected session whose
\* connection is open is still in the map
C15_Witness ==
    \E s, t \in Ids :
        /\ lastEvent.type = "close" /\ lastEvent.sid = s
        /\ connClosed[s] /\ closeFired[s] /\ inflight[s] > 0
        /\ ~MapHas(sessions, s)
        /\ handshake[t] = "connected" /\ ~connClosed[t]
        /\ MapHas(sessions, t)

----------------------------------------------------------------------------
(* inferState: default and totality *)

\* C16: inferState returns a state for every input string; for the empty
\* string, for whitespace-only input and for input matching none of the four
\* keyword sets it returns Stuck (S1).
C16_InferStateDefault ==
    toolRes.kind = "inferred" =>
        LET userText == toolReq.user_input[1]
            t == trim(toLowerCase(userText))
        IN  /\ toolRes.state \in {"S1", "S2", "S3", "S4"}
            /\ userText = "" => toolRes.state = "S1"
            /\ (\A i \in 1..Len(userText) : IsSpace(At(userText, i))) =>
                   toolRes.state = "S1"
            /\ matchedSets(t) = {} => toolRes.state = "S1"

\* a non-empty input of whitespace only, and one of letters matching no
\* keyword set, were classified Stuck
C16_Witness ==
    /\ toolRes.kind = "inferred"
    /\ toolRes.state = "S1"
    /\ LET userText == toolReq.user_input[1]
       IN  /\ Len(userText) > 1
           /\ matchedSets(trim(toLowerCase(userText))) = {}
           /\ \/ \A i \in 1..Len(userText) : IsSpace(At(userText, i))
              \/ \A i \in 1..Len(userText) : ~IsSpace(At(userText, i))

----------------------------------------------------------------------------
(* Richer composer: the situation and the timebox *)

\* the timebox the handler settles on for a situation
timeboxOf(situation) == OrElse(timeboxMatch(situation), defaultTimebox)

\* situations of second calls to compare a call with
probeSituations ==
    {"x", "30 minutes", "so 30 minutes or 2 hours", "2hours", "2hours of 15MIN",
     "(b) 2 hours", "2 hours, 15 MIN", "15MIN", "I have 15MINs", "15 MIN left",
     "22hours", "215MIN", "hours 2", "MIN"}

probeTimebox == [p \in probeSituations |-> timeboxOf(p)]

\* what the handler returns for a second call with situation p
probeResult ==
    [p \in probeSituations, c \in constraintsInputs, d \in desiredInputs |->
        callToolRicher([kind |-> "call", name |-> "next_best_step",
                        situation |-> Given(p), constraints |-> c,
                        desired_outcome |-> d, message |-> Absent])]

\* C17: the text of the richer next_best_step depends on the situation only
\* through the detected timebox: a second call with equal constraints and
\* desired_outcome whose situation yields the same timebox returns the same
\* text and details.
C17_SituationOnlyViaTimebox ==
    RicherStepResult =>
        LET timebox == timeboxOf(toolReq.situation[1])
            sameTimebox == {p \in probeSituations : probeTimebox[p] = timebox}
        IN  \A p \in sameTimebox :
                LET other == probeResult[p, toolReq.constraints,
                                         toolReq.desired_outcome]
                IN  /\ other.kind = "result"
                    /\ other.text = toolRes.text
                    /\ other.details = toolRes.details
                    /\ other.message = toolRes.message

\* a call whose situation holds a timebox, and a different situation with
\* the same timebox to compare it with; a desired outcome is given
C17_Witness ==
    /\ RicherStepResult
    /\ timeboxMatch(toolReq.situation[1]) # Absent
    /\ toolReq.desired_outcome = Given("Momentum")
    /\ \E p \in probeSituations :
           /\ p # toolReq.situation[1]
           /\ Len(p) # Len(toolReq.situation[1])
           /\ probeTimebox[p] = timeboxOf(toolReq.situation[1])

\* the words (minutes?|mins?|hours?|hrs?) stands for
unitWords == {"minute", "minutes", "min", "mins", "hour", "hours", "hr", "hrs"}

\* u is, as a whole, digits, then optional white space, then a unit word in
\* any letter case
matchesTimeboxPattern(u) ==
    \E uw \in unitWords :
        LET n == Len(u) - Len(uw)
        IN  /\ n >= 1
            /\ toLowerCase(SubSeq(u, n + 1, Len(u))) = uw
            /\ \E d \in 1..n :
                   /\ \A k \in 1..d : IsDigit(At(u, k))
                   /\ \A k \in (d + 1)..n : IsSpace(At(u, k))

\* the <<start, end>> of every substring of s matching the pattern
patternMatches(s) ==
    {m \in (1..Len(s)) \X (1..Len(s)) :
        /\ m[1] <= m[2]
        /\ IsDigit(At(s, m[1]))
        /\ matchesTimeboxPattern(SubSeq(s, m[1], m[2]))}

\* C18: the timebox is the first (leftmost, and longest from there)
\* substring of situation made of digits, optional white space and a
\* minute/hour unit in any letter case, used verbatim in the heading
\* "Next Best Step (<timebox>):" and in the step; without such a substring
\* it is "30 minutes".
C18_TimeboxVerbatim ==
    RicherStepResult =>
        LET s == toolReq.situation[1]
            matches == patternMatches(s)
            first == CHOOSE m \in matches :
                         \A o \in matches :
                             m[1] < o[1] \/ (m[1] = o[1] /\ m[2] >= o[2])
            timebox == IF matches = {} THEN "30 minutes"
                       ELSE SubSeq(s, first[1], first[2])
            opening == "Next Best Step (" \o timebox \o "):\nSet a "
                           \o timebox \o " timer and produce ONE shippable draft"
        IN  /\ Len(toolRes.text) > Len(opening)
            /\ SubSeq(toolRes.text, 1, Len(opening)) = opening
            /\ toolRes.details = toolRes.text

\* a situation whose first match is in upper case and does not start the
\* situation: heading and step carry it as written
C18_Witness ==
    /\ RicherStepResult
    /\ timeboxMatch(toolReq.situation[1]) = Given("15MIN")
    /\ At(toolReq.situation[1], 1) # "1"
    /\ SubSeq(toolRes.text, 1, 43) = "Next Best Step (15MIN):\nSet a 15MIN timer a"

----------------------------------------------------------------------------
(* Unknown tools *)

\* C19: a tool call naming a tool the variant does not register raises
\* "Unknown tool: <name>" and gives no tool result; the call leaves the
\* session map and the session's state as they were, and a later call on the
\* same session naming a registered tool is served.
C19_UnknownTool ==
    [][\A s \in Ids :
        (lastEvent'.type = "toolCall" /\ lastEvent'.sid = s) =>
            /\ toolReq'.name \notin registeredTools(variant) =>
                   /\ toolRes' = ToolError("Unknown tool: " \o toolReq'.name)
                   /\ s \in toolThrew'
            /\ toolReq'.name \in registeredTools(variant) =>
                   /\ toolRes'.kind = "result"
                   /\ toolThrew' = toolThrew
            /\ sessions' = sessions
            /\ UNCHANGED sessionVars
            /\ SessionState(s)' = SessionState(s)]_vars

\* a registered tool was served on a session still in the map whose handler
\* had thrown on an earlier call
C19_Witness ==
    \E s \in Ids :
        /\ lastEvent.type = "toolCall" /\ lastEvent.sid = s
        /\ s \in toolThrew
        /\ toolRes.kind = "result"
        /\ MapHas(sessions, s)
        /\ SessionState(s) = "Active"

----------------------------------------------------------------------------
(* Who changes the session map *)

\* C20: the session map changes only in three kinds of step: an SSE GET on
\* /mcp adds exactly one entry, for a new id; a transport close event or a
\* handshake failure removes the entry of its own session and no other.
\* Every POST (400, 404, handed over, resolved or failed with 500), every
\* OPTIONS, health, root and not-found request, and every other step leaves
\* the map as it was.
C20_MapWriters ==
    [][/\ lastEvent'.type = "sse" =>
              /\ lastEvent'.sid \notin DOMAIN sessions
              /\ DOMAIN sessions' = DOMAIN sessions \cup {lastEvent'.sid}
              /\ Cardinality(DOMAIN sessions') = Cardinality(DOMAIN sessions) + 1
              /\ \A x \in DOMAIN sessions : sessions'[x] = sessions[x]
       /\ lastEvent'.type \in {"close", "connectFailed"} =>
              sessions' = MapDelete(sessions, lastEvent'.sid)
       /\ lastEvent'.type \notin {"sse", "close", "connectFailed"} =>
              sessions' = sessions
       /\ lastEvent'.type \in {"post", "postResolved", "postRejected",
                               "preflight", "health", "root", "notFound",
                               "missingUrl", "error", "connected",
                               "disconnect"} =>
              sessions' = sessions]_vars

\* the handler answered a failed POST with 500 and its session is still in
\* the map, after another session's entry has been removed by its close event
C20_Witness ==
    \E s, t \in Ids :
        /\ lastEvent.type = "postRejected" /\ lastEvent.sid = s
        /\ res = Respond(500, "Failed to process message")
        /\ MapHas(sessions, s)
        /\ closeFired[t] /\ ~MapHas(sessions, t)
        /\ DOMAIN sessions = {s}

----------------------------------------------------------------------------
(* Removal: repeated and in either order *)

\* C21: removal is idempotent and order-independent. A close event or a
\* handshake failure of session s leaves the map without s and with every
\* other entry as it was, also when s was already gone (a close while the
\* handshake is pending, a second close, close and handshake failure one
\* after the other in either order); a session once removed stays out of
\* the map, and the completion of its handshake does not put it back.
C21_RemovalIdempotent ==
    [][\A s \in Ids :
        /\ (lastEvent'.type \in {"close", "connectFailed"} /\ lastEvent'.sid = s) =>
               /\ ~MapHas(sessions', s)
               /\ DOMAIN sessions' = DOMAIN sessions \ {s}
               /\ \A t \in DOMAIN sessions' : sessions'[t] = sessions[t]
               /\ ~MapHas(sessions, s) => sessions' = sessions
        /\ (lastEvent'.type = "connected" /\ lastEvent'.sid = s) =>
               /\ sessions' = sessions
               /\ closeFired[s] => ~MapHas(sessions', s)
        /\ (closeFired[s] \/ handshake[s] = "failed") =>
               /\ ~MapHas(sessions, s)
               /\ ~MapHas(sessions', s)]_vars

\* the handshake of a session failed after its close event had already
\* removed it: the session is out of the map and the other, connected
\* session is still in it
C21_Witness ==
    \E s, t \in Ids :
        /\ lastEvent.type = "connectFailed" /\ lastEvent.sid = s
        /\ closeFired[s] /\ handshake[s] = "failed"
        /\ ~MapHas(sessions, s)
        /\ t # s /\ handshake[t] = "connected" /\ MapHas(sessions, t)
        /\ DOMAIN sessions = {t}

====
